---- MODULE Spec2Model ----
(***************************************************************************)
(* A model of time_parser.py: the line parser                              *)
(* (ParsedDatetimeFactory.from_line), the value classes Date and Time, the *)
(* aggregator AggregatedTimeIntoDays and the driver ActionAgregate.run.    *)
(*                                                                         *)
(* Text is a sequence of one-character strings.  A Time object is an       *)
(* entry of the heap: its index is the object's identity, its value the    *)
(* timedelta _data in whole seconds.  A Python optional integer is <<>>    *)
(* for None and <<n>> for the integer n.                                   *)
(***************************************************************************)
EXTENDS Integers, Sequences, FiniteSets, TLC

VARIABLES
    inLine,      \* the line last handed to from_line directly
    inPad,       \* the whitespace appended to inLine for the second call
    parsed,      \* outcome of the last from_line call
    parsedPad,   \* outcome of from_line(inLine + inPad)
    heap,        \* Time objects: heap[r] is the _data of object r, in seconds
    storage,     \* AggregatedTimeIntoDays._storage, an insertion-ordered dict
    ndates,      \* number of Date objects constructed so far
    added,       \* history: one record per add call
    firstSeen,   \* history: the (month, day) pairs in order of first add
    iterPrev,    \* the pairs yielded by the complete iteration before the last
    iterLast,    \* the pairs yielded by the last complete iteration
    itersDone,   \* complete iterations so far, counted up to two
    addSince,    \* an add call happened since the last complete iteration
    cleanPair,   \* iterPrev and iterLast had no add call between them
    runError,    \* the error that left ActionAgregate.run, "none" while it loops
    serialized,  \* concurrent callers take turns calling add
    pc,          \* per concurrent caller: its position inside add
    loc,         \* per concurrent caller: the locals of add and __add__
    centry       \* per concurrent caller: the entry it passes to add

parseVars == <<inLine, inPad, parsed, parsedPad>>
aggVars == <<heap, storage, ndates, added, firstSeen, iterPrev,
             iterLast, itersDone, addSince, cleanPair, runError>>
concVars == <<serialized, pc, loc, centry>>
vars == <<inLine, inPad, parsed, parsedPad, heap, storage, ndates, added,
          firstSeen, iterPrev, iterLast, itersDone, addSince,
          cleanPair, runError, serialized, pc, loc, centry>>

(***************************************************************************)
(* Bounds of the model.                                                    *)
(***************************************************************************)
MaxAdds == 3

NumCallers == 2

(***************************************************************************)
(* Character classes of the regular expression (re, str patterns).         *)
(***************************************************************************)
Lower == {"a","b","c","d","e","f","g","h","i","j","k","l","m",
          "n","o","p","q","r","s","t","u","v","w","x","y","z"}

Upper == {"A","B","C","D","E","F","G","H","I","J","K","L","M",
          "N","O","P","Q","R","S","T","U","V","W","X","Y","Z"}

\* [a-zA-Z]
Alpha == Lower \cup Upper

DigitSeq == <<"0","1","2","3","4","5","6","7","8","9">>

\* [0-9]
Digit == {DigitSeq[i] : i \in 1..Len(DigitSeq)}

\* \s (the ASCII members; \v has no TLA+ escape and is left out)
Space == {" ", "\t", "\n", "\r", "\f"}

None == <<>>

\* line[i], or "" past either end of the line
At(line, i) == IF i \in 1..Len(line) THEN line[i] ELSE ""

\* The position after the longest run of characters of class cls that
\* starts at position i: how a greedy cls* consumes.
RECURSIVE SpanEnd(_, _, _)
SpanEnd(line, i, cls) ==
    IF At(line, i) \in cls THEN SpanEnd(line, i + 1, cls) ELSE i

\* $ without re.MULTILINE: the end of the string, or just before a newline
\* that is the last character of the string.
AtDollar(line, p) ==
    \/ p = Len(line) + 1
    \/ p = Len(line) /\ line[p] = "\n"

NoMatch == [matched |-> FALSE]

\* {regex_hours}:{regex_minutes}\)$ from position p, with groups 1, 2 and 4
\* already captured.
MatchClock(line, p, g1, g2, g4) ==
    LET h == SpanEnd(line, p, Digit)
        m == SpanEnd(line, h + 1, Digit)
    IN  IF /\ h > p
           /\ At(line, h) = ":"
           /\ m > h + 1
           /\ At(line, m) = ")"
           /\ AtDollar(line, m + 1)
        THEN [matched |-> TRUE, g1 |-> g1, g2 |-> g2, g4 |-> g4,
              g5 |-> SubSeq(line, p, h - 1), g6 |-> SubSeq(line, h + 1, m - 1)]
        ELSE NoMatch

\* re.search(regex, line) for the regex built in from_line.  The classes of
\* adjacent repetitions are disjoint, so each greedy run has one way to
\* match; the optional group is tried first and given up if the rest fails.
ReSearch(line) ==
    LET a == SpanEnd(line, 1, Space)
        b == SpanEnd(line, a, Alpha)
        c == SpanEnd(line, b, Space)
        d == SpanEnd(line, c, Digit)
        e == SpanEnd(line, d, Space)
        g1 == SubSeq(line, a, b - 1)
        g2 == SubSeq(line, c, d - 1)
        withExtra ==
            IF At(line, e + 1) \in Digit /\ At(line, e + 2) = "+"
            THEN MatchClock(line, e + 3, g1, g2, <<line[e + 1]>>)
            ELSE NoMatch
    IN  IF b > a /\ c > b /\ d > c /\ e > d /\ At(line, e) = "("
        THEN IF withExtra.matched
             THEN withExtra
             ELSE MatchClock(line, e + 1, g1, g2, None)
        ELSE NoMatch

DigitVal(ch) == (CHOOSE i \in 1..Len(DigitSeq) : DigitSeq[i] = ch) - 1

\* int(text) for a text of decimal digits
RECURSIVE IntOf(_)
IntOf(text) ==
    IF Len(text) = 0 THEN 0
    ELSE IntOf(SubSeq(text, 1, Len(text) - 1)) * 10 + DigitVal(text[Len(text)])

(***************************************************************************)
(* Date and Time.                                                          *)
(***************************************************************************)
\* Date(month, day): a new object, the id-th constructed
DateInit(id, month, day) == [id |-> id, month |-> month, day |-> day]

\* Faulty variant of DateEq: a Date without __eq__ and __hash__ compares by
\* object identity
DateEqIdentity(d1, d2) == d1.id = d2.id

\* Date.__eq__ (and __hash__, which hashes the same pair)
DateEq(d1, d2) == <<d1.month, d1.day>> = <<d2.month, d2.day>>

\* Python truth of an optional integer: None and 0 are false
Truthy(x) == x # None /\ x[1] # 0

ExtraHours == 24

\* Time.__init__: the timedelta _data, in seconds
TimeInit(hours, minutes, extra_hours) ==
    LET h == IF Truthy(extra_hours) THEN hours + ExtraHours ELSE hours
    IN  h * 3600 + minutes * 60

\* Time.hours: int(total_seconds() / 3600); int() truncates, which is the
\* floor for the non-negative durations the inputs give
Hours(data) == data \div 3600

\* Time.minutes
Minutes(data) == (data \div 60) - Hours(data) * 60

\* Time.__eq__
TimeEq(d1, d2) == <<Hours(d1), Minutes(d1)>> = <<Hours(d2), Minutes(d2)>>

(***************************************************************************)
(* ParsedDatetimeFactory.                                                  *)
(***************************************************************************)
\* ParsedDatetimeFactory.__new__: positional arguments if any were given,
\* keyword arguments otherwise.  The result holds the fields of the new Date
\* and the _data of the new Time; the caller gives them their identities.
Factory(args, kwargs) ==
    LET is_source_dict == Len(args) = 0
        month == IF is_source_dict THEN kwargs.month ELSE args[1]
        day == IF is_source_dict THEN kwargs.day ELSE args[2]
        extra_hours == IF is_source_dict THEN kwargs.extra_number ELSE args[3]
        hours == IF is_source_dict THEN kwargs.hours ELSE args[4]
        minutes == IF is_source_dict THEN kwargs.minutes ELSE args[5]
    IN  [month |-> month, day |-> day,
         data |-> TimeInit(hours, minutes, extra_hours)]

\* ParsedDatetimeFactory.from_line: re.search returns None for a line the
\* regex does not match, and result.group(1) on None raises AttributeError.
FromLine(line) ==
    LET result == ReSearch(line)
    IN  IF result.matched
        THEN [ok |-> TRUE, error |-> "none", line |-> line, groups |-> result,
              entry |-> Factory(<<>>,
                  [month |-> result.g1,
                   day |-> IntOf(result.g2),
                   extra_number |-> IF result.g4 # None
                                    THEN <<IntOf(result.g4)>> ELSE None,
                   hours |-> IntOf(result.g5),
                   minutes |-> IntOf(result.g6)])]
        ELSE [ok |-> FALSE, error |-> "AttributeError", line |-> line,
              groups |-> result, entry |-> None]

(***************************************************************************)
(* AggregatedTimeIntoDays.  _storage is a dict: lookup is by Date.__eq__,  *)
(* a new key goes last, and assigning to a present key keeps its place.    *)
(***************************************************************************)
\* key in self._storage
KeyIn(st, key) == \E i \in 1..Len(st) : DateEq(st[i].key, key)

SlotOf(st, key) == CHOOSE i \in 1..Len(st) : DateEq(st[i].key, key)

\* self._storage[key]
DictGet(st, key) == st[SlotOf(st, key)].val

\* Faulty variant of DictSet: assigning to a present key moves it to the
\* end (delete, then insert)
DictSetMoveToEnd(st, key, val) ==
    Append(SelectSeq(st, LAMBDA slot : ~DateEq(slot.key, key)),
           [key |-> key, val |-> val])

\* self._storage[key] = val
DictSet(st, key, val) ==
    IF KeyIn(st, key)
    THEN [st EXCEPT ![SlotOf(st, key)].val = val]
    ELSE Append(st, [key |-> key, val |-> val])

\* Faulty variant of TimedeltaAdd: a time of day, wrapping at 24 hours
TimedeltaAddWrapDay(a, b) == (a + b) % 86400

\* timedelta + timedelta
TimedeltaAdd(a, b) == a + b

\* Faulty variant of InitInStorageIfNotExists: one zero Time object shared
\* by every key instead of a new one per key
InitInStorageSharedZero(st, hp, key) ==
    IF ~KeyIn(st, key)
    THEN IF Len(st) > 0
         THEN [st |-> DictSet(st, key, st[1].val), hp |-> hp]
         ELSE [st |-> DictSet(st, key, Len(hp) + 1),
               hp |-> Append(hp, TimeInit(0, 0, None))]
    ELSE [st |-> st, hp |-> hp]

\* _init_in_storage_if_not_exists: a new Time(hours=0, minutes=0) object
InitInStorageIfNotExists(st, hp, key) ==
    IF ~KeyIn(st, key)
    THEN [st |-> DictSet(st, key, Len(hp) + 1),
          hp |-> Append(hp, TimeInit(0, 0, None))]
    ELSE [st |-> st, hp |-> hp]

\* Time.__add__: self._data += other._data rebinds the _data of the object
\* self; the object returned is self.
TimeAdd(hp, self, other) ==
    [hp |-> [hp EXCEPT ![self] = TimedeltaAdd(hp[self], hp[other])],
     ret |-> self]

\* _sum_new_and_previous_time
SumNewAndPreviousTime(hp, previous_time, newtime) ==
    TimeAdd(hp, previous_time, newtime)

\* AggregatedTimeIntoDays.add, for an entry whose date is the object key
\* and whose time is the object newtime
AddOp(st, hp, key, newtime) ==
    LET i == InitInStorageIfNotExists(st, hp, key)
        s == SumNewAndPreviousTime(i.hp, DictGet(i.st, key), newtime)
    IN  [st |-> DictSet(i.st, key, s.ret), hp |-> s.hp]

\* AggregatedTimeIntoDays.__iter__, run to its end: the (date, time) pairs
\* of self._storage.items(), each with the hours and minutes its time
\* reads when it is yielded.
Items(st, hp) ==
    [i \in 1..Len(st) |->
        [month |-> st[i].key.month, day |-> st[i].key.day, ref |-> st[i].val,
         hours |-> Hours(hp[st[i].val]), minutes |-> Minutes(hp[st[i].val])]]

(***************************************************************************)
(* Inputs.                                                                 *)
(***************************************************************************)
Jul == <<"J","u","l">>

Aug == <<"A","u","g">>

Leads == {<<>>, <<" ">>}

MonthToks == {Jul, Aug}

Seps == {<<" ">>, <<" "," "," ">>}

DayToks == {<<"2">>, <<"3","1">>}

ExtraToks == {<<>>} \cup {<<ch, "+">> : ch \in Digit}

HourToks == {<<"0","4">>, <<"2","3">>}

MinuteToks == {<<"1","7">>, <<"7","5">>}

Tails == {<<>>, <<"\n">>}

\* Lines of the shape the tests and the input file use
ShapedLines ==
    {lead \o mo \o sep \o dy \o sep \o <<"(">> \o ex \o hh \o <<":">> \o mm
          \o <<")">> \o tl :
        lead \in Leads, mo \in MonthToks, sep \in Seps, dy \in DayToks,
        ex \in ExtraToks, hh \in HourToks, mm \in MinuteToks, tl \in Tails}

NotAValidLine ==
    <<"n","o","t"," ","a"," ","v","a","l","i","d"," ","l","i","n","e">>

OtherLines ==
    {NotAValidLine,
     <<>>,
     <<"\n">>,
     <<"J","u","l"," ","2"," ","(","0","4",":","1","7">>,
     <<"J","u","l","2"," ","(","0","4",":","1","7",")">>,
     <<"J","u","l"," ","2","(","0","4",":","1","7",")">>,
     <<"J","u","l"," ","2"," ","(","1","2","+","0","4",":","1","7",")">>,
     <<"J","u","l"," ","2"," ","(","+","0","4",":","1","7",")">>,
     <<"J","u","l"," ","2"," ","(","0","4",":","1","7",")"," ","x">>,
     <<"7"," ","2"," ","(","0","4",":","1","7",")">>}

Lines == ShapedLines \cup OtherLines

\* Whitespace appended after the closing parenthesis
Pads == {<<" ">>, <<"\t">>, <<"\n">>, <<" ", "\n">>, <<"\r", "\n">>,
         <<" ", " ">>, <<"\n", "\n">>}

\* The lines the driver reads from its input file
DriverLines ==
    {<<"J","u","l"," ","2"," "," "," ","(","0","4",":","1","7",")">>,
     <<"J","u","l"," ","2"," "," "," ","(","1","+","1","2",":","4","4",")","\n">>,
     <<"A","u","g"," ","3"," ","(","2","2",":","7","5",")","\n">>,
     <<"J","u","l"," ","2"," ","(","0","4",":","1","7",")"," ","\n">>,
     NotAValidLine}

Months == {Jul, Aug}

Days == {2, 3}

Extras == {None, <<1>>}

HoursArgs == {22}

MinutesArgs == {50}

ArgTuples ==
    {<<mo, dy, ex, hh, mm>> :
        mo \in Months, dy \in Days, ex \in Extras, hh \in HoursArgs,
        mm \in MinutesArgs}

NotCalled ==
    [ok |-> FALSE, error |-> "none", line |-> <<>>, groups |-> NoMatch,
     entry |-> None]

(***************************************************************************)
(* The parser called on its own.                                           *)
(***************************************************************************)
InitCommon ==
    /\ inLine = <<>>
    /\ inPad = <<>>
    /\ parsed = NotCalled
    /\ parsedPad = NotCalled
    /\ heap = <<>>
    /\ storage = <<>>
    /\ ndates = 0
    /\ added = <<>>
    /\ firstSeen = <<>>
    /\ iterPrev = <<>>
    /\ iterLast = <<>>
    /\ itersDone = 0
    /\ addSince = FALSE
    /\ cleanPair = FALSE
    /\ runError = "none"
    /\ serialized = TRUE
    /\ pc = <<>>
    /\ loc = <<>>
    /\ centry = <<>>

\* ParsedDatetimeFactory.from_line(line), the first call
CallFromLine(line) ==
    /\ parsed = NotCalled
    /\ inLine' = line
    /\ inPad' = <<>>
    /\ parsed' = FromLine(line)
    /\ parsedPad' = NotCalled
    /\ UNCHANGED <<aggVars, concVars>>

\* ParsedDatetimeFactory.from_line(inLine + pad), after from_line(inLine)
CallFromLinePadded(pad) ==
    /\ parsed # NotCalled
    /\ inPad' = pad
    /\ parsedPad' = FromLine(inLine \o pad)
    /\ UNCHANGED <<inLine, parsed, aggVars, concVars>>

NextParse ==
    \/ \E line \in Lines : CallFromLine(line)
    \/ \E pad \in Pads : CallFromLinePadded(pad)

SpecParse == InitCommon /\ [][NextParse]_vars

(***************************************************************************)
(* The aggregator and the driver.                                          *)
(***************************************************************************)
Init == InitCommon

HasPair(seen, month, day) ==
    \E i \in 1..Len(seen) : seen[i].month = month /\ seen[i].day = day

\* The history of first-seen (month, day) pairs after one more add call
NoteSeen(seen, month, day, path) ==
    IF HasPair(seen, month, day)
    THEN [i \in 1..Len(seen) |->
            IF seen[i].month = month /\ seen[i].day = day
            THEN [seen[i] EXCEPT !.paths = @ \cup {path}]
            ELSE seen[i]]
    ELSE Append(seen, [month |-> month, day |-> day, paths |-> {path}])

\* aggregated_time_per_day.add(entry) for the entry a factory call has just
\* built: its Date and its Time are new objects.
AddEntry(entry, path) ==
    LET key == DateInit(ndates + 1, entry.month, entry.day)
        newtime == Len(heap) + 1
        r == AddOp(storage, Append(heap, entry.data), key, newtime)
    IN  /\ Len(added) < MaxAdds
        /\ heap' = r.hp
        /\ storage' = r.st
        /\ ndates' = ndates + 1
        /\ added' = Append(added,
              [month |-> entry.month, day |-> entry.day, ref |-> newtime,
               hours |-> Hours(entry.data), minutes |-> Minutes(entry.data)])
        /\ firstSeen' = NoteSeen(firstSeen, entry.month, entry.day, path)
        /\ addSince' = TRUE
        /\ UNCHANGED <<iterPrev, iterLast, itersDone, cleanPair>>

\* add(ParsedDatetimeFactory(month, day, extra_number, hours, minutes))
AddPositional(args) ==
    /\ AddEntry(Factory(args, <<>>), "positional")
    /\ UNCHANGED <<parseVars, runError, concVars>>

\* add(ParsedDatetimeFactory(month=..., day=..., extra_number=..., ...))
AddKeyword(args) ==
    /\ AddEntry(Factory(<<>>,
           [month |-> args[1], day |-> args[2], extra_number |-> args[3],
            hours |-> args[4], minutes |-> args[5]]), "keyword")
    /\ UNCHANGED <<parseVars, runError, concVars>>

\* from_line on each line of the driver's input
DriverParse == [line \in DriverLines |-> FromLine(line)]

\* One turn of the loop of ActionAgregate.run on the next line of the
\* input: from_line, then add; an error of from_line leaves run.
RunStep(line) ==
    LET r == DriverParse[line]
    IN  /\ runError = "none"
        /\ IF r.ok
           THEN AddEntry(r.entry, "from_line") /\ UNCHANGED runError
           ELSE /\ runError' = r.error
                /\ UNCHANGED <<heap, storage, ndates, added, firstSeen,
                               iterPrev, iterLast, itersDone,
                               addSince, cleanPair>>
        /\ UNCHANGED <<parseVars, concVars>>

\* Faulty variant of Iterate: an iteration that consumes the table
\* (popitem until empty)
IterateDraining ==
    /\ iterPrev' = iterLast
    /\ iterLast' = Items(storage, heap)
    /\ itersDone' = IF itersDone < 2 THEN itersDone + 1 ELSE itersDone
    /\ cleanPair' = (itersDone > 0 /\ ~addSince)
    /\ addSince' = FALSE
    /\ storage' = <<>>
    /\ UNCHANGED <<heap, ndates, added, firstSeen, runError, parseVars,
                   concVars>>

\* for date, time in aggregated_time_per_day: ..., run to its end
Iterate ==
    /\ iterPrev' = iterLast
    /\ iterLast' = Items(storage, heap)
    /\ itersDone' = IF itersDone < 2 THEN itersDone + 1 ELSE itersDone
    /\ cleanPair' = (itersDone > 0 /\ ~addSince)
    /\ addSince' = FALSE
    /\ UNCHANGED <<heap, storage, ndates, added, firstSeen,
                   runError, parseVars, concVars>>

\* Entries built on each of the three construction paths and added
Next ==
    \/ \E args \in ArgTuples : AddPositional(args)
    \/ \E args \in ArgTuples : AddKeyword(args)
    \/ \E line \in DriverLines : RunStep(line)

Spec == Init /\ [][Next]_vars

\* add calls and complete iterations in any order
NextIter ==
    \/ \E args \in ArgTuples : AddPositional(args)
    \/ \E line \in DriverLines : RunStep(line)
    \/ Iterate

SpecIter == Init /\ [][NextIter]_vars

(***************************************************************************)
(* Concurrent callers of add on one aggregator.  Each caller passes one    *)
(* entry and runs the statements of add, _init_in_storage_if_not_exists    *)
(* and Time.__add__ one at a time; with serialized, a caller enters add    *)
(* only while no other caller is inside it.                                *)
(***************************************************************************)
Callers == 1..NumCallers

ConcArgs ==
    {<<Jul, 2, None, 22, 50>>, <<Jul, 2, None, 4, 17>>,
     <<Aug, 2, None, 22, 50>>}

InitConc ==
    /\ inLine = <<>>
    /\ inPad = <<>>
    /\ parsed = NotCalled
    /\ parsedPad = NotCalled
    /\ storage = <<>>
    /\ ndates = NumCallers
    /\ added = <<>>
    /\ firstSeen = <<>>
    /\ iterPrev = <<>>
    /\ iterLast = <<>>
    /\ itersDone = 0
    /\ addSince = FALSE
    /\ cleanPair = FALSE
    /\ runError = "none"
    /\ serialized \in BOOLEAN
    /\ pc = [c \in Callers |-> "idle"]
    /\ loc = [c \in Callers |-> [previous_time |-> 0, data |-> 0]]
    /\ \E choice \in [Callers -> ConcArgs] :
          LET built == [c \in Callers |-> Factory(choice[c], <<>>)]
          IN  /\ heap = [c \in Callers |-> built[c].data]
              /\ centry = [c \in Callers |->
                    [date |-> DateInit(c, built[c].month, built[c].day),
                     time |-> c]]

Inside(c) == pc[c] \notin {"idle", "done"}

concFrame == <<parseVars, ndates, added, firstSeen, iterPrev, iterLast,
               itersDone, addSince, cleanPair, runError, serialized, centry>>

\* the call of add: key = parsed_datetime.date
EnterAdd(c) ==
    /\ pc[c] = "idle"
    /\ serialized => \A d \in Callers : ~Inside(d)
    /\ pc' = [pc EXCEPT ![c] = "check"]
    /\ UNCHANGED <<heap, storage, loc, concFrame>>

\* if key not in self._storage
CheckKey(c) ==
    /\ pc[c] = "check"
    /\ pc' = [pc EXCEPT ![c] =
          IF KeyIn(storage, centry[c].date) THEN "get" ELSE "init"]
    /\ UNCHANGED <<heap, storage, loc, concFrame>>

\* self._storage[key] = Time(hours=0, minutes=0)
InitKey(c) ==
    /\ pc[c] = "init"
    /\ heap' = Append(heap, TimeInit(0, 0, None))
    /\ storage' = DictSet(storage, centry[c].date, Len(heap) + 1)
    /\ pc' = [pc EXCEPT ![c] = "get"]
    /\ UNCHANGED <<loc, concFrame>>

\* previous_time = self._storage[key]
GetPrevious(c) ==
    /\ pc[c] = "get"
    /\ loc' = [loc EXCEPT ![c].previous_time = DictGet(storage, centry[c].date)]
    /\ pc' = [pc EXCEPT ![c] = "load"]
    /\ UNCHANGED <<heap, storage, concFrame>>

\* the right-hand side of self._data += other._data
LoadSum(c) ==
    /\ pc[c] = "load"
    /\ loc' = [loc EXCEPT ![c].data =
          TimedeltaAdd(heap[loc[c].previous_time], heap[centry[c].time])]
    /\ pc' = [pc EXCEPT ![c] = "store"]
    /\ UNCHANGED <<heap, storage, concFrame>>

\* the assignment to self._data
StoreSum(c) ==
    /\ pc[c] = "store"
    /\ heap' = [heap EXCEPT ![loc[c].previous_time] = loc[c].data]
    /\ pc' = [pc EXCEPT ![c] = "assign"]
    /\ UNCHANGED <<storage, loc, concFrame>>

\* Faulty variant of AssignSlot: the slot is given the entry's time, not
\* the sum that __add__ returned
AssignSlotNewTime(c) ==
    /\ pc[c] = "assign"
    /\ storage' = DictSet(storage, centry[c].date, centry[c].time)
    /\ pc' = [pc EXCEPT ![c] = "done"]
    /\ UNCHANGED <<heap, loc, concFrame>>

\* self._storage[key] = the Time that __add__ returned
AssignSlot(c) ==
    /\ pc[c] = "assign"
    /\ storage' = DictSet(storage, centry[c].date, loc[c].previous_time)
    /\ pc' = [pc EXCEPT ![c] = "done"]
    /\ UNCHANGED <<heap, loc, concFrame>>

NextConc ==
    \/ \E c \in Callers : EnterAdd(c)
    \/ \E c \in Callers : CheckKey(c)
    \/ \E c \in Callers : InitKey(c)
    \/ \E c \in Callers : GetPrevious(c)
    \/ \E c \in Callers : LoadSum(c)
    \/ \E c \in Callers : StoreSum(c)
    \/ \E c \in Callers : AssignSlot(c)

SpecConc == InitConc /\ [][NextConc]_vars

(***************************************************************************)
(* Properties of the parser.                                               *)
(***************************************************************************)
\* The duration a parse result carries, in minutes
EntryMinutes(p) == Hours(p.entry.data) * 60 + Minutes(p.entry.data)

\* C1: for every line from_line accepts, the Duration is HOURS hours plus
\* MINUTES minutes, plus exactly 24 hours if the EXTRA marker is present,
\* whatever its digit, and plus nothing if it is absent.
C1_ExtraIsFlat24h ==
    parsed.ok =>
        EntryMinutes(parsed) =
            IntOf(parsed.groups.g5) * 60 + IntOf(parsed.groups.g6)
            + (IF parsed.groups.g4 # None THEN ExtraHours * 60 ELSE 0)

\* C2: for every line that does not match, from_line fails with
\* MalformedLineError (no Entry, no other kind of error), and the error that
\* leaves the driver's run() on such a line is MalformedLineError.
C2_MalformedLineError ==
    /\ (parsed # NotCalled /\ ~parsed.groups.matched) =>
          (~parsed.ok /\ parsed.error = "MalformedLineError")
    /\ runError # "none" => runError = "MalformedLineError"

\* C6: for every line from_line accepts, the line with whitespace appended
\* after the closing parenthesis is accepted too and gives the same
\* (DateKey, Duration).
C6_TrailingWhitespaceAccepted ==
    (parsed.ok /\ parsedPad # NotCalled) =>
        (parsedPad.ok /\ parsedPad.entry = parsed.entry)

(***************************************************************************)
(* Properties of the aggregator.                                           *)
(***************************************************************************)
PairOf(rec) == <<rec.month, rec.day>>

\* The (month, day) pairs of the keys of a table
KeyPairs(st) == {PairOf(st[i].key) : i \in 1..Len(st)}

\* The running total of pair in a table, as (hours, minutes)
TotalOf(st, hp, pair) ==
    LET i == CHOOSE j \in 1..Len(st) : PairOf(st[j].key) = pair
    IN  <<Hours(hp[st[i].val]), Minutes(hp[st[i].val])>>

\* Minutes added for pair by the first n add calls: hours*60 + minutes
RECURSIVE MinutesAdded(_, _)
MinutesAdded(pair, n) ==
    IF n = 0 THEN 0
    ELSE MinutesAdded(pair, n - 1)
         + (IF PairOf(added[n]) = pair
            THEN added[n].hours * 60 + added[n].minutes ELSE 0)

TotalsMatchAdded ==
    \A i \in 1..Len(storage) :
        LET t == TotalOf(storage, heap, PairOf(storage[i].key))
        IN  /\ t[1] * 60 + t[2] = MinutesAdded(PairOf(storage[i].key), Len(added))
            /\ t[2] \in 0..59
            /\ t[1] >= 0

\* One add call follows the carry rule on (hours, minutes)
CarryRuleStep ==
    Len(added') > Len(added) =>
        LET e == added'[Len(added')]
            a == IF PairOf(e) \in KeyPairs(storage)
                 THEN TotalOf(storage, heap, PairOf(e)) ELSE <<0, 0>>
            r == TotalOf(storage', heap', PairOf(e))
        IN  /\ r[1] = a[1] + e.hours + (a[2] + e.minutes) \div 60
            /\ r[2] = (a[2] + e.minutes) % 60

\* C3: after any sequence of add calls, each key's running total satisfies
\* hours*60 + minutes = the sum over the added entries with that key, with
\* minutes in [0,60) and hours not wrapped; each add follows the carry rule.
C3_TotalsAreSums == []TotalsMatchAdded /\ [][CarryRuleStep]_vars

C3_Witness ==
    /\ Len(added) = 2
    /\ \A n \in 1..2 : added[n].hours = 22 /\ added[n].minutes = 50
    /\ Len(storage) = 1
    /\ TimeEq(heap[storage[1].val], TimeInit(45, 40, None))

\* C4: the table holds exactly one slot per distinct (month, day) pair added
\* so far, whichever construction path built the entries.
C4_OneSlotPerPair ==
    /\ KeyPairs(storage) = {PairOf(added[n]) : n \in 1..Len(added)}
    /\ Len(storage) = Cardinality(KeyPairs(storage))

C4_Witness ==
    /\ Len(added) = 3
    /\ Len(storage) = 1
    /\ firstSeen[1].paths = {"from_line", "positional", "keyword"}

\* One add call changes at most the slot of its entry's key
AddFrameStep ==
    Len(added') > Len(added) =>
        LET e == added'[Len(added')]
        IN  /\ KeyPairs(storage') = KeyPairs(storage) \cup {PairOf(e)}
            /\ Len(storage') >= Len(storage)
            /\ \A k \in KeyPairs(storage) \ {PairOf(e)} :
                  TotalOf(storage', heap', k) = TotalOf(storage, heap, k)
            /\ PairOf(e) \notin KeyPairs(storage) =>
                  TotalOf(storage', heap', PairOf(e)) = <<e.hours, e.minutes>>

\* C9: every add call leaves the keys it found in place, adds at most its
\* entry's key, leaves every other key's total unchanged, and starts an
\* absent key from zero.
C9_AddTouchesOneSlot == [][AddFrameStep]_vars

C9_Witness ==
    /\ Len(added) = 3
    /\ Len(storage) = 2
    /\ PairOf(added[3]) = PairOf(added[1])
    /\ PairOf(added[2]) # PairOf(added[1])

(***************************************************************************)
(* Properties of iteration and of the values handed out.                   *)
(***************************************************************************)
\* The Time object ref still reads the (hours, minutes) recorded in rec
ReadsAsRecorded(rec) ==
    <<Hours(heap[rec.ref]), Minutes(heap[rec.ref])>> = <<rec.hours, rec.minutes>>

\* C5: addition leaves both operands as they were, so the duration of an
\* entry that was passed to add, and every running total that an iteration
\* yielded, still read the same (hours, minutes) after any later add call.
C5_AdditionIsPure ==
    /\ \A n \in 1..Len(added) : ReadsAsRecorded(added[n])
    /\ \A i \in 1..Len(iterLast) : ReadsAsRecorded(iterLast[i])
    /\ \A i \in 1..Len(iterPrev) : ReadsAsRecorded(iterPrev[i])

\* C7: a complete iteration yields one pair per key, in the order in which
\* the keys were first added; later add calls for a present key do not move
\* it, and keys added after the iteration come after the yielded ones.
C7_IterationInFirstAddOrder ==
    itersDone > 0 =>
        /\ Len(iterLast) <= Len(firstSeen)
        /\ \A i \in 1..Len(iterLast) : PairOf(iterLast[i]) = PairOf(firstSeen[i])
        /\ ~addSince => Len(iterLast) = Len(firstSeen)

C7_Witness ==
    /\ itersDone > 0
    /\ ~addSince
    /\ Len(added) = 3
    /\ PairOf(added[1]) = PairOf(added[3])
    /\ PairOf(added[1]) # PairOf(added[2])
    /\ Len(iterLast) = 2
    /\ PairOf(iterLast[1]) = <<Jul, 3>>
    /\ PairOf(iterLast[2]) = <<Aug, 2>>

\* What a caller sees of the yielded pairs: key and (hours, minutes)
Seen(items) ==
    [i \in 1..Len(items) |->
        <<items[i].month, items[i].day, items[i].hours, items[i].minutes>>]

\* A step in which no add call was made
NoAddStep == added' = added /\ runError' = runError

\* C8: two complete iterations with no add call between them yield the
\* same sequence of (key, (hours, minutes)) pairs, and an iteration leaves
\* the table's keys and running totals unchanged.
C8_IterationIsReadOnly ==
    /\ [](cleanPair => Seen(iterPrev) = Seen(iterLast))
    /\ [][NoAddStep => (storage' = storage /\ heap' = heap)]_vars

C8_Witness ==
    /\ cleanPair
    /\ Len(iterLast) = 2
    /\ Len(added) = 3

(***************************************************************************)
(* Properties of concurrent callers.                                       *)
(***************************************************************************)
AllDone == \A c \in Callers : pc[c] = "done"

\* Seconds the callers numbered up to n pass for the key of caller c
RECURSIVE SecondsPassed(_, _)
SecondsPassed(c, n) ==
    IF n = 0 THEN 0
    ELSE SecondsPassed(c, n - 1)
         + (IF PairOf(centry[n].date) = PairOf(centry[c].date)
            THEN heap[centry[n].time] ELSE 0)

\* The running total, in seconds, of the key of caller c
SecondsHeld(c) ==
    LET i == CHOOSE j \in 1..Len(storage) :
                 PairOf(storage[j].key) = PairOf(centry[c].date)
    IN  heap[storage[i].val]

\* C10: once every caller has returned from add, no running total exceeds
\* the sum of the entries passed for its key, and if the calls were
\* serialized every running total equals that sum; without serialization a
\* smaller total (a lost update) is reachable.
C10_SerializedAddLosesNothing ==
    AllDone =>
        \A c \in Callers :
            /\ PairOf(centry[c].date) \in KeyPairs(storage)
            /\ SecondsHeld(c) <= SecondsPassed(c, NumCallers)
            /\ serialized => SecondsHeld(c) = SecondsPassed(c, NumCallers)

C10_Witness ==
    /\ AllDone
    /\ ~serialized
    /\ \E c \in Callers : SecondsHeld(c) < SecondsPassed(c, NumCallers)

====
